---- MODULE Spec2Model ----
(***************************************************************************)
(* MCBSOptions.py: Monte Carlo pricing of a European call and put on a     *)
(* geometric Brownian motion, next to the Black-Scholes closed form.       *)
(*                                                                         *)
(* The script is modelled statement by statement: pc is the position in    *)
(* the script, the other variables are the script's module-level names.    *)
(*                                                                         *)
(* Numbers.  A number is a record [n, d]: the exact rational n/d in lowest *)
(* terms (d > 0), or one of the three IEEE special values, which the       *)
(* script meets at exact singularities only (division by 0.0, log of 0 or  *)
(* of a negative number, mean of an empty list): d = 0 and n = 1, -1, 0    *)
(* for +inf, -inf, nan.  Arithmetic on rationals is exact: the rounding    *)
(* and the finite range of double precision are not part of the model.     *)
(* Rates are measured in units of ln 2, so that exp(x) is 2^x and log is   *)
(* the logarithm to base 2; exp, sqrt and log are evaluated on a grid      *)
(* (Exp and Ln at the integer part, Sqrt at the denominator of its         *)
(* argument), and norm.cdf by a symmetric table.                           *)
(***************************************************************************)
EXTENDS Integers, Sequences, FiniteSets, TLC

VARIABLES
    S0, K, T, r, sigma, num_simulations, time_steps,  \* lines 6-12
    dt,                \* line 15
    call_payoffs,      \* line 16
    put_payoffs,       \* line 17
    simulated_paths,   \* line 20
    S, path, Z,        \* lines 25, 26, 29
    i, j,              \* trials started (line 24), steps done in the trial (line 28)
    mc_call_price, mc_put_price, bs_call_price, bs_put_price,  \* lines 55-58
    plotted,           \* paths drawn by the loop of lines 68-71
    rng,               \* the values numpy's global generator will return next
    draws,             \* calls of np.random.normal() so far
    error,             \* the exception that ended the run, or "none"
    pc,                \* position in the script
    run, first_paths   \* which execution of the script this is; the first one's paths

params == <<S0, K, T, r, sigma, num_simulations, time_steps>>

vars == <<S0, K, T, r, sigma, num_simulations, time_steps, dt, call_payoffs,
          put_payoffs, simulated_paths, S, path, Z, i, j, mc_call_price,
          mc_put_price, bs_call_price, bs_put_price, plotted, rng, draws,
          error, pc, run, first_paths>>

(***************************************************************************)
(* Bounds of the model.                                                    *)
(***************************************************************************)
MaxSims == 2

MaxSteps == 2

(***************************************************************************)
(* Numbers.                                                                *)
(***************************************************************************)
Abs(x) == IF x < 0 THEN -x ELSE x

RECURSIVE GCD(_, _)
GCD(a, b) == IF b = 0 THEN a ELSE GCD(b, a % b)

RECURSIVE Pow2(_)
Pow2(e) == IF e = 0 THEN 1 ELSE 2 * Pow2(e - 1)

\* n/d in lowest terms, for d # 0.
Rat(n, d) ==
    LET g == GCD(Abs(n), Abs(d))
        s == IF d < 0 THEN -1 ELSE 1
    IN  [n |-> s * (n \div g), d |-> s * (d \div g)]

R(x) == [n |-> x, d |-> 1]

NaN == [n |-> 0, d |-> 0]

PInf == [n |-> 1, d |-> 0]

NInf == [n |-> -1, d |-> 0]

\* The value of a name the script has not bound yet.
Unbound == [n |-> 0, d |-> -1]

IsNaN(x) == x.d = 0 /\ x.n = 0

IsInf(x) == x.d = 0 /\ x.n # 0

IsFinite(x) == x.d > 0

Sgn(x) == IF x.n > 0 THEN 1 ELSE IF x.n < 0 THEN -1 ELSE 0

\* Each operation XOf is applied through X, which evaluates the operands first:
\* TLC passes operands unevaluated and would evaluate a nested one once per use.
FNegOf(x) == [n |-> -x.n, d |-> x.d]

FNeg(x) == CHOOSE v \in {FNegOf(y) : y \in {x}} : TRUE

FAddOf(a, b) ==
    IF IsNaN(a) \/ IsNaN(b) THEN NaN
    ELSE IF IsInf(a) /\ IsInf(b) THEN (IF a.n = b.n THEN a ELSE NaN)
    ELSE IF IsInf(a) THEN a
    ELSE IF IsInf(b) THEN b
    ELSE LET l == (a.d * b.d) \div GCD(a.d, b.d)
         IN  Rat(a.n * (l \div a.d) + b.n * (l \div b.d), l)

FAdd(a, b) == CHOOSE v \in {FAddOf(x, y) : x \in {a}, y \in {b}} : TRUE

FSub(a, b) == FAdd(a, FNeg(b))

FMulOf(a, b) ==
    IF IsNaN(a) \/ IsNaN(b) THEN NaN
    ELSE IF IsInf(a) \/ IsInf(b)
         THEN (IF Sgn(a) * Sgn(b) = 0 THEN NaN
               ELSE [n |-> Sgn(a) * Sgn(b), d |-> 0])
    ELSE Rat(a.n * b.n, a.d * b.d)

FMul(a, b) == CHOOSE v \in {FMulOf(x, y) : x \in {a}, y \in {b}} : TRUE

\* numpy's float division: x/0.0 is an infinity or nan, never an exception.
FDivOf(a, b) ==
    IF IsNaN(a) \/ IsNaN(b) THEN NaN
    ELSE IF IsInf(b) THEN (IF IsInf(a) THEN NaN ELSE R(0))
    ELSE IF b.n = 0 THEN (IF a.n = 0 THEN NaN ELSE [n |-> Sgn(a), d |-> 0])
    ELSE IF IsInf(a) THEN [n |-> Sgn(a) * Sgn(b), d |-> 0]
    ELSE Rat(a.n * b.d, a.d * b.n)

FDiv(a, b) == CHOOSE v \in {FDivOf(x, y) : x \in {a}, y \in {b}} : TRUE

\* a < b; every comparison with nan is false.
FLtOf(a, b) ==
    IF IsNaN(a) \/ IsNaN(b) THEN FALSE
    ELSE IF IsInf(a) \/ IsInf(b)
         THEN (IF IsInf(a) /\ IsInf(b) THEN a.n < b.n
               ELSE IF IsInf(a) THEN a.n < 0
               ELSE b.n > 0)
    ELSE a.n * b.d < b.n * a.d

FLt(a, b) == CHOOSE v \in {FLtOf(x, y) : x \in {a}, y \in {b}} : TRUE

FLe(a, b) == FLt(a, b) \/ (~IsNaN(a) /\ a = b)

Floor(x) == x.n \div x.d

ISqrt(m) == CHOOSE k \in 0..m : k * k <= m /\ m < (k + 1) * (k + 1)

RECURSIVE Log2Floor(_, _)
Log2Floor(n, d) ==
    IF n >= d
    THEN (IF n >= 2 * d THEN 1 + Log2Floor(n, 2 * d) ELSE 0)
    ELSE Log2Floor(2 * n, d) - 1

\* np.sqrt: nan below zero.
SqrtOf(x) ==
    IF IsNaN(x) \/ Sgn(x) < 0 THEN NaN
    ELSE IF IsInf(x) THEN PInf
    ELSE Rat(ISqrt(x.n * x.d), x.d)

Sqrt(x) == CHOOSE v \in {SqrtOf(y) : y \in {x}} : TRUE

\* np.exp.
ExpOf(x) ==
    IF IsNaN(x) THEN NaN
    ELSE IF IsInf(x) THEN (IF x.n > 0 THEN PInf ELSE R(0))
    ELSE IF Floor(x) >= 0 THEN R(Pow2(Floor(x)))
    ELSE Rat(1, Pow2(-Floor(x)))

Exp(x) == CHOOSE v \in {ExpOf(y) : y \in {x}} : TRUE

\* np.log: nan below zero, -inf at zero.
LnOf(x) ==
    IF IsNaN(x) \/ Sgn(x) < 0 THEN NaN
    ELSE IF IsInf(x) THEN PInf
    ELSE IF x.n = 0 THEN NInf
    ELSE R(Log2Floor(x.n, x.d))

Ln(x) == CHOOSE v \in {LnOf(y) : y \in {x}} : TRUE

\* scipy.stats.norm.cdf: increasing, cdf(x) + cdf(-x) = 1.
NormCdfOf(x) ==
    IF IsNaN(x) THEN NaN
    ELSE IF IsInf(x) THEN (IF x.n > 0 THEN R(1) ELSE R(0))
    ELSE IF x.n >= 0 THEN Rat(Pow2(Floor(x) + 1) - 1, Pow2(Floor(x) + 1))
    ELSE Rat(1, Pow2(Floor(FNeg(x)) + 1))

NormCdf(x) == CHOOSE v \in {NormCdfOf(y) : y \in {x}} : TRUE

\* The builtin max(a, b): a, unless b > a.
PyMax(a, b) == IF FLt(a, b) THEN b ELSE a

RECURSIVE Sum(_)
Sum(xs) == IF xs = <<>> THEN R(0) ELSE FAdd(Head(xs), Sum(Tail(xs)))

\* np.mean: nan for an empty list.
Mean(xs) == IF xs = <<>> THEN NaN ELSE FDiv(Sum(xs), R(Len(xs)))

(***************************************************************************)
(* The script's expressions.                                               *)
(***************************************************************************)
\* line 30: (r - 0.5 * sigma ** 2) * dt + sigma * np.sqrt(dt) * Z
GrowthExponent(rate, vol, step, z) ==
    FAdd(FMul(FSub(rate, FMul(Rat(1, 2), FMul(vol, vol))), step),
         FMul(FMul(vol, Sqrt(step)), z))

\* NextPrice with the exponential replaced by its first-order expansion 1 + x.
NextPrice_Euler(s, rate, vol, step, z) ==
    FMul(s, FAdd(R(1), GrowthExponent(rate, vol, step, z)))

\* line 30: S * np.exp(...)
NextPrice(s, rate, vol, step, z) == FMul(s, Exp(GrowthExponent(rate, vol, step, z)))

\* CallPayoff without the floor at zero.
CallPayoff_NoFloor(s, k) == FSub(s, k)

\* line 35: max(S - K, 0)
CallPayoff(s, k) == PyMax(FSub(s, k), R(0))

\* line 36: max(K - S, 0)
PutPayoff(s, k) == PyMax(FSub(k, s), R(0))

\* McPrice without the discount factor.
McPrice_Undiscounted(rate, t, payoffs) == Mean(payoffs)

\* lines 55-56: np.exp(-r * T) * np.mean(payoffs)
McPrice(rate, t, payoffs) == FMul(Exp(FMul(FNeg(rate), t)), Mean(payoffs))

\* lines 43 and 49; S0/K divides Python numbers, so k # 0 here.
D1(s0, k, t, rate, vol) ==
    FDiv(FAdd(Ln(FDiv(s0, k)),
              FMul(FAdd(rate, FMul(Rat(1, 2), FMul(vol, vol))), t)),
         FMul(vol, Sqrt(t)))

\* lines 44 and 50
D2(s0, k, t, rate, vol) == FSub(D1(s0, k, t, rate, vol), FMul(vol, Sqrt(t)))

\* lines 42-46
black_scholes_call(s0, k, t, rate, vol) ==
    FSub(FMul(s0, NormCdf(D1(s0, k, t, rate, vol))),
         FMul(FMul(k, Exp(FMul(FNeg(rate), t))), NormCdf(D2(s0, k, t, rate, vol))))

\* black_scholes_put with d1 and d2 exchanged.
black_scholes_put_SwappedD(s0, k, t, rate, vol) ==
    FSub(FMul(FMul(k, Exp(FMul(FNeg(rate), t))), NormCdf(FNeg(D1(s0, k, t, rate, vol)))),
         FMul(s0, NormCdf(FNeg(D2(s0, k, t, rate, vol)))))

\* lines 48-52
black_scholes_put(s0, k, t, rate, vol) ==
    FSub(FMul(FMul(k, Exp(FMul(FNeg(rate), t))), NormCdf(FNeg(D2(s0, k, t, rate, vol)))),
         FMul(s0, NormCdf(FNeg(D1(s0, k, t, rate, vol)))))

(***************************************************************************)
(* Inputs.  The script reads its seven parameters from lines 6-12; the     *)
(* model runs it for every parameter record below.  A record is valid      *)
(* when S0, K, T, sigma > 0 and both counts are >= 1.                      *)
(***************************************************************************)
ZValues == {-1, 1}

ValidParams ==
    [S0 : {4}, K : {3}, T : {1, 2}, r : {0, 1}, sigma : {1, 2},
     num_simulations : 1..MaxSims, time_steps : 1..MaxSteps]

BaseParams ==
    [S0 |-> 4, K |-> 2, T |-> 1, r |-> 1, sigma |-> 1,
     num_simulations |-> 1, time_steps |-> 2]

\* One parameter out of range at a time.
InvalidParams ==
    {[BaseParams EXCEPT !.S0 = v] : v \in {-2, 0}}
    \cup {[BaseParams EXCEPT !.K = v] : v \in {-2, 0}}
    \cup {[BaseParams EXCEPT !.T = v] : v \in {-1, 0}}
    \cup {[BaseParams EXCEPT !.sigma = v] : v \in {-1, 0}}
    \cup {[BaseParams EXCEPT !.num_simulations = 0, !.time_steps = v] : v \in 1..MaxSteps}
    \cup {[BaseParams EXCEPT !.time_steps = 0, !.num_simulations = v] : v \in 0..MaxSims}

Valid ==
    /\ S0 > 0 /\ K > 0 /\ T > 0 /\ sigma > 0
    /\ num_simulations >= 1 /\ time_steps >= 1

Terminated == pc \in {"done", "failed"}

\* The state of a fresh interpreter at line 5, for the parameter record p.  The
\* generator is seeded by the operating system: rng is any sequence of values,
\* of which the model keeps the num_simulations * time_steps a run can take.
Start(p) ==
    /\ S0 = p.S0 /\ K = p.K /\ T = p.T /\ r = p.r /\ sigma = p.sigma
    /\ num_simulations = p.num_simulations /\ time_steps = p.time_steps
    /\ dt = Unbound
    /\ call_payoffs = <<>> /\ put_payoffs = <<>> /\ simulated_paths = <<>>
    /\ S = Unbound /\ path = <<>> /\ Z = Unbound
    /\ i = 0 /\ j = 0
    /\ mc_call_price = Unbound /\ mc_put_price = Unbound
    /\ bs_call_price = Unbound /\ bs_put_price = Unbound
    /\ plotted = 0
    /\ rng \in [1..(p.num_simulations * p.time_steps) -> ZValues]
    /\ draws = 0
    /\ error = "none"
    /\ pc = "dt"

Init ==
    /\ \E p \in ValidParams \cup InvalidParams : Start(p)
    /\ run = 1
    /\ first_paths = <<>>

(***************************************************************************)
(* The script's statements.                                                *)
(***************************************************************************)
\* ComputeDt with numpy's division, which returns inf or nan instead of raising.
ComputeDt_NumpyDivision ==
    /\ pc = "dt"
    /\ dt' = FDiv(R(T), R(time_steps))
    /\ pc' = "trial"
    /\ UNCHANGED <<params, call_payoffs, put_payoffs, simulated_paths, S, path, Z,
                   i, j, mc_call_price, mc_put_price, bs_call_price, bs_put_price,
                   plotted, rng, draws, error, run, first_paths>>

\* line 15: dt = T/time_steps, a division of Python numbers.
ComputeDt ==
    /\ pc = "dt"
    /\ IF time_steps = 0
       THEN /\ error' = "ZeroDivisionError"
            /\ pc' = "failed"
            /\ dt' = dt
       ELSE /\ dt' = FDiv(R(T), R(time_steps))
            /\ pc' = "trial"
            /\ error' = error
    /\ UNCHANGED <<params, call_payoffs, put_payoffs, simulated_paths, S, path, Z,
                   i, j, mc_call_price, mc_put_price, bs_call_price, bs_put_price,
                   plotted, rng, draws, run, first_paths>>

\* StartTrial with S = S0 hoisted out of the loop: a trial starts where the last ended.
StartTrial_NoReset ==
    /\ pc = "trial"
    /\ i < num_simulations
    /\ S' = (IF i = 0 THEN R(S0) ELSE S)
    /\ path' = <<S'>>
    /\ j' = 0
    /\ pc' = "step"
    /\ UNCHANGED <<params, dt, call_payoffs, put_payoffs, simulated_paths, Z, i,
                   mc_call_price, mc_put_price, bs_call_price, bs_put_price,
                   plotted, rng, draws, error, run, first_paths>>

\* lines 24-26: the next trial starts from S0 with the one-point path [S0].
StartTrial ==
    /\ pc = "trial"
    /\ i < num_simulations
    /\ S' = R(S0)
    /\ path' = <<R(S0)>>
    /\ j' = 0
    /\ pc' = "step"
    /\ UNCHANGED <<params, dt, call_payoffs, put_payoffs, simulated_paths, Z, i,
                   mc_call_price, mc_put_price, bs_call_price, bs_put_price,
                   plotted, rng, draws, error, run, first_paths>>

\* Step with the draw hoisted out of the inner loop: one draw per trial.
Step_ReusedDraw ==
    /\ pc = "step"
    /\ j < time_steps
    /\ IF j = 0
       THEN Z' = R(Head(rng)) /\ rng' = Tail(rng) /\ draws' = draws + 1
       ELSE UNCHANGED <<Z, rng, draws>>
    /\ S' = NextPrice(S, R(r), R(sigma), dt, Z')
    /\ path' = Append(path, S')
    /\ j' = j + 1
    /\ UNCHANGED <<params, dt, call_payoffs, put_payoffs, simulated_paths, i,
                   mc_call_price, mc_put_price, bs_call_price, bs_put_price,
                   plotted, error, pc, run, first_paths>>

\* lines 28-31: one draw, one update of S, one point appended.
Step ==
    /\ pc = "step"
    /\ j < time_steps
    /\ Z' = R(Head(rng))
    /\ rng' = Tail(rng)
    /\ draws' = draws + 1
    /\ S' = NextPrice(S, R(r), R(sigma), dt, Z')
    /\ path' = Append(path, S')
    /\ j' = j + 1
    /\ UNCHANGED <<params, dt, call_payoffs, put_payoffs, simulated_paths, i,
                   mc_call_price, mc_put_price, bs_call_price, bs_put_price,
                   plotted, error, pc, run, first_paths>>

\* line 35, once the inner loop is exhausted.
AppendCall ==
    /\ pc = "step"
    /\ j >= time_steps
    /\ call_payoffs' = Append(call_payoffs, CallPayoff(S, R(K)))
    /\ pc' = "put"
    /\ UNCHANGED <<params, dt, put_payoffs, simulated_paths, S, path, Z, i, j,
                   mc_call_price, mc_put_price, bs_call_price, bs_put_price,
                   plotted, rng, draws, error, run, first_paths>>

\* line 36
AppendPut ==
    /\ pc = "put"
    /\ put_payoffs' = Append(put_payoffs, PutPayoff(S, R(K)))
    /\ pc' = "path"
    /\ UNCHANGED <<params, dt, call_payoffs, simulated_paths, S, path, Z, i, j,
                   mc_call_price, mc_put_price, bs_call_price, bs_put_price,
                   plotted, rng, draws, error, run, first_paths>>

\* AppendPath keeping a display subset only: the first path.
AppendPath_DisplaySubset ==
    /\ pc = "path"
    /\ simulated_paths' = (IF i < 1 THEN Append(simulated_paths, path) ELSE simulated_paths)
    /\ i' = i + 1
    /\ pc' = "trial"
    /\ UNCHANGED <<params, dt, call_payoffs, put_payoffs, S, path, Z, j,
                   mc_call_price, mc_put_price, bs_call_price, bs_put_price,
                   plotted, rng, draws, error, run, first_paths>>

\* line 39
AppendPath ==
    /\ pc = "path"
    /\ simulated_paths' = Append(simulated_paths, path)
    /\ i' = i + 1
    /\ pc' = "trial"
    /\ UNCHANGED <<params, dt, call_payoffs, put_payoffs, S, path, Z, j,
                   mc_call_price, mc_put_price, bs_call_price, bs_put_price,
                   plotted, rng, draws, error, run, first_paths>>

\* lines 55-56, once the outer loop is exhausted.
Price ==
    /\ pc = "trial"
    /\ i >= num_simulations
    /\ mc_call_price' = McPrice(R(r), R(T), call_payoffs)
    /\ mc_put_price' = McPrice(R(r), R(T), put_payoffs)
    /\ pc' = "bs"
    /\ UNCHANGED <<params, dt, call_payoffs, put_payoffs, simulated_paths, S, path,
                   Z, i, j, bs_call_price, bs_put_price, plotted, rng, draws,
                   error, run, first_paths>>

\* lines 57-58; S0/K on line 43 divides Python numbers and raises for K = 0.
BlackScholes ==
    /\ pc = "bs"
    /\ IF K = 0
       THEN /\ error' = "ZeroDivisionError"
            /\ pc' = "failed"
            /\ UNCHANGED <<bs_call_price, bs_put_price>>
       ELSE /\ bs_call_price' = black_scholes_call(R(S0), R(K), R(T), R(r), R(sigma))
            /\ bs_put_price' = black_scholes_put(R(S0), R(K), R(T), R(r), R(sigma))
            /\ pc' = "plot"
            /\ error' = error
    /\ UNCHANGED <<params, dt, call_payoffs, put_payoffs, simulated_paths, S, path,
                   Z, i, j, mc_call_price, mc_put_price, plotted, rng, draws,
                   run, first_paths>>

\* lines 68-71: path number `plotted` is drawn against time_steps + 1 time points.
Plot ==
    /\ pc = "plot"
    /\ plotted < num_simulations
    /\ plotted' = plotted + 1
    /\ UNCHANGED <<params, dt, call_payoffs, put_payoffs, simulated_paths, S, path,
                   Z, i, j, mc_call_price, mc_put_price, bs_call_price,
                   bs_put_price, rng, draws, error, pc, run, first_paths>>

\* lines 73-189: the tables and plt.show(); the script ends.
Show ==
    /\ pc = "plot"
    /\ plotted >= num_simulations
    /\ pc' = "done"
    /\ UNCHANGED <<params, dt, call_payoffs, put_payoffs, simulated_paths, S, path,
                   Z, i, j, mc_call_price, mc_put_price, bs_call_price,
                   bs_put_price, plotted, rng, draws, error, run, first_paths>>

Next ==
    \/ ComputeDt
    \/ StartTrial
    \/ Step
    \/ AppendCall
    \/ AppendPut
    \/ AppendPath
    \/ Price
    \/ BlackScholes
    \/ Plot
    \/ Show

Spec == Init /\ [][Next]_vars

\* The interpreter runs the script to its end: no statement waits for anything.
FairSpec == Spec /\ WF_vars(Next)

(***************************************************************************)
(* The script run a second time with the same parameters.  Each execution  *)
(* is a new interpreter: line 1 imports numpy, whose global generator is   *)
(* seeded from the operating system, and no line of the script seeds it.   *)
(***************************************************************************)
Rerun ==
    /\ pc = "done"
    /\ run = 1
    /\ run' = 2
    /\ first_paths' = simulated_paths
    /\ dt' = Unbound
    /\ call_payoffs' = <<>> /\ put_payoffs' = <<>> /\ simulated_paths' = <<>>
    /\ S' = Unbound /\ path' = <<>> /\ Z' = Unbound
    /\ i' = 0 /\ j' = 0
    /\ mc_call_price' = Unbound /\ mc_put_price' = Unbound
    /\ bs_call_price' = Unbound /\ bs_put_price' = Unbound
    /\ plotted' = 0
    /\ rng' \in [1..(num_simulations * time_steps) -> ZValues]
    /\ draws' = 0
    /\ error' = "none"
    /\ pc' = "dt"
    /\ UNCHANGED params

InitTwoRuns ==
    /\ \E p \in ValidParams : Start(p)
    /\ run = 1
    /\ first_paths = <<>>

NextTwoRuns == Next \/ Rerun

TwoRunSpec == InitTwoRuns /\ [][NextTwoRuns]_vars

(***************************************************************************)
(* The Black-Scholes evaluator on its own inputs: one trial of one step,   *)
(* and S0, K, T, r, sigma over a wider range.                              *)
(***************************************************************************)
BSParams ==
    [S0 : {1, 2, 4, 8}, K : {1, 3, 4}, T : {1, 2, 4}, r : {-1, 0, 1}, sigma : {1, 2},
     num_simulations : {1}, time_steps : {1}]

InitBS ==
    /\ \E p \in BSParams : Start(p)
    /\ run = 1
    /\ first_paths = <<>>

SpecBS == InitBS /\ [][Next]_vars

(***************************************************************************)
(* Properties.                                                             *)
(***************************************************************************)
Last(xs) == xs[Len(xs)]

AfterSimulation == pc \in {"bs", "plot", "done"}

NoResult ==
    /\ simulated_paths = <<>> /\ call_payoffs = <<>> /\ put_payoffs = <<>>
    /\ mc_call_price = Unbound /\ mc_put_price = Unbound
    /\ bs_call_price = Unbound /\ bs_put_price = Unbound

\* C1: whenever a parameter is out of range (S0, K, T or sigma <= 0, a count
\* < 1) the run takes no random draw and produces no path, payoff or price, and
\* it can end only in a failure.  (Read generously: any failure counts, whatever
\* its name.)
C1_InvalidParametersRejected ==
    ~Valid => /\ draws = 0
              /\ NoResult
              /\ (Terminated => pc = "failed")

\* C2: for valid parameters every stored path has time_steps + 1 points and
\* starts at S0, whatever the previous trial's last price was, and the path
\* under construction has j + 1 points after j steps.
C2_PathShape ==
    Valid =>
        /\ \A k \in 1..Len(simulated_paths) :
              /\ Len(simulated_paths[k]) = time_steps + 1
              /\ simulated_paths[k][1] = R(S0)
        /\ (pc \in {"step", "put", "path"} =>
              /\ Len(path) = j + 1
              /\ path[1] = R(S0))

C2_Witness ==
    /\ Valid
    /\ pc = "done"
    /\ Len(simulated_paths) >= 2
    /\ Len(simulated_paths[2]) = time_steps + 1
    /\ Last(simulated_paths[1]) # R(S0)
    /\ simulated_paths[2][1] = R(S0)

\* C3: for valid parameters the three collections grow together (the payoffs
\* of the trial being appended are at most one entry ahead of the paths), the
\* k-th payoffs are those of the k-th path, and once the loop is over each
\* holds exactly num_simulations entries, every path kept and every path drawn.
C3_CollectionsComplete ==
    Valid =>
        /\ Len(simulated_paths) = i
        /\ Len(call_payoffs) = (IF pc \in {"put", "path"} THEN i + 1 ELSE i)
        /\ Len(put_payoffs) = (IF pc = "path" THEN i + 1 ELSE i)
        /\ \A k \in 1..Len(simulated_paths) :
              /\ call_payoffs[k] = CallPayoff(Last(simulated_paths[k]), R(K))
              /\ put_payoffs[k] = PutPayoff(Last(simulated_paths[k]), R(K))
        /\ (AfterSimulation => Len(simulated_paths) = num_simulations)
        /\ plotted <= Len(simulated_paths)
        /\ (pc = "done" => plotted = num_simulations)

C3_Witness ==
    /\ Valid
    /\ pc = "done"
    /\ Len(simulated_paths) = MaxSims
    /\ simulated_paths[1] # simulated_paths[MaxSims]
    /\ plotted = MaxSims

C5_SameInputsSamePaths ==
    (run = 2 /\ pc = "done") => simulated_paths = first_paths

\* C6 as claimed: with time_steps = 0 no error is raised, every path is [S0]
\* and the payoffs are those of S0.
C6_ZeroStepsDegenerate ==
    time_steps = 0 =>
        /\ pc # "failed"
        /\ error = "none"
        /\ \A k \in 1..Len(simulated_paths) : simulated_paths[k] = <<R(S0)>>
        /\ \A k \in 1..Len(call_payoffs) :
              call_payoffs[k] = (IF S0 > K THEN R(S0 - K) ELSE R(0))
        /\ \A k \in 1..Len(put_payoffs) :
              put_payoffs[k] = (IF K > S0 THEN R(K - S0) ELSE R(0))

\* C6 as amended: with time_steps = 0 the run stops at dt = T/time_steps with a
\* ZeroDivisionError, before any trial: no draw, no path, no payoff, no price.
C6_ZeroStepsRaises ==
    time_steps = 0 =>
        /\ pc \in {"dt", "failed"}
        /\ (pc = "failed" => error = "ZeroDivisionError")
        /\ dt = Unbound
        /\ path = <<>>
        /\ draws = 0
        /\ NoResult

C6_Witness ==
    /\ time_steps = 0
    /\ num_simulations >= 1
    /\ pc = "failed"
    /\ error = "ZeroDivisionError"

\* C7: the k-th call payoff is max(S_T - K, 0) and the k-th put payoff is
\* max(K - S_T, 0) for S_T the last point of the k-th path; each Monte Carlo
\* price is exp(-r*T) times the mean of all num_simulations payoffs; the
\* Black-Scholes prices are those of the parameters of the simulation.
C7_PayoffsAndPrices ==
    Valid =>
        /\ \A k \in 1..Len(simulated_paths) :
              LET ST == Last(simulated_paths[k])
              IN  /\ call_payoffs[k] = (IF FLt(R(K), ST) THEN FSub(ST, R(K)) ELSE R(0))
                  /\ put_payoffs[k] = (IF FLt(ST, R(K)) THEN FSub(R(K), ST) ELSE R(0))
        /\ (AfterSimulation =>
              /\ Len(call_payoffs) = num_simulations
              /\ Len(put_payoffs) = num_simulations
              /\ FMul(mc_call_price, R(num_simulations))
                    = FMul(Exp(R(-(r * T))), Sum(call_payoffs))
              /\ FMul(mc_put_price, R(num_simulations))
                    = FMul(Exp(R(-(r * T))), Sum(put_payoffs)))
        /\ (pc \in {"plot", "done"} =>
              /\ bs_call_price = black_scholes_call(R(S0), R(K), R(T), R(r), R(sigma))
              /\ bs_put_price = black_scholes_put(R(S0), R(K), R(T), R(r), R(sigma)))

\* Discounting matters and the payoffs differ between trials.
C7_Witness ==
    /\ Valid
    /\ pc = "done"
    /\ r # 0
    /\ num_simulations = MaxSims
    /\ call_payoffs[1] # call_payoffs[MaxSims]
    /\ FLt(R(0), mc_call_price)
    /\ mc_call_price # Mean(call_payoffs)
    /\ Last(simulated_paths[1]) # simulated_paths[1][1]

\* C8: put-call parity, call - put = S0 - K * exp(-r*T), for the prices the
\* two functions return on the same valid inputs.
C8_PutCallParity ==
    (Valid /\ pc \in {"plot", "done"}) =>
        FSub(bs_call_price, bs_put_price)
            = FSub(R(S0), FMul(R(K), Exp(R(-(r * T)))))

C8_Witness ==
    /\ Valid
    /\ pc = "done"
    /\ r # 0
    /\ S0 # K
    /\ IsFinite(bs_call_price) /\ IsFinite(bs_put_price)
    /\ bs_call_price # R(0) /\ bs_put_price # R(0)
    /\ bs_call_price # bs_put_price

C10_Counting ==
    Valid =>
        /\ draws = (IF pc \in {"step", "put", "path"} THEN i * time_steps + j
                    ELSE IF pc = "dt" THEN 0 ELSE i * time_steps)
        /\ Len(rng) = num_simulations * time_steps - draws
        /\ (pc \in {"step", "put", "path"} => Len(path) = j + 1)
        /\ (pc \in {"put", "path"} => j = time_steps)
        /\ (Len(call_payoffs) > i => j = time_steps)
        /\ (AfterSimulation => draws = num_simulations * time_steps)

\* C10: for valid parameters the run reaches its end, having taken exactly
\* num_simulations * time_steps draws, one new draw per step of each trial,
\* with a point appended per step and the payoffs of a trial appended only
\* after its last step.
C10_TerminatesAfterAllDraws ==
    /\ []C10_Counting
    /\ <>(Valid => (pc = "done" /\ draws = num_simulations * time_steps))

C10_Witness ==
    /\ Valid
    /\ pc = "done"
    /\ num_simulations = MaxSims
    /\ time_steps = MaxSteps
    /\ draws = MaxSims * MaxSteps
    /\ rng = <<>>
====
